---- MODULE Spec2Model ----
(***************************************************************************)
(* A model of the RCA breakdown pipeline of airlines_qa_dashboard:         *)
(*   rca_breakdown.py  identify_mistaken_policies, process_data            *)
(*   rca_dashboard.py  identify_mistaken_policies (the same function)      *)
(*                                                                         *)
(* A Python str is a sequence of one-character strings (<<"A">> is "A",    *)
(* <<"A","B">> is "AB"); the cells Market, Method, Is_Task_Correct,        *)
(* Controllable and RCA, which the code only compares and sorts, are TLA+  *)
(* strings.  A DataFrame is the sequence of its rows, each row a record.   *)
(***************************************************************************)
EXTENDS Integers, Sequences, FiniteSets, TLC

(***************************************************************************)
(* Bounds of the model.                                                    *)
(***************************************************************************)
\* the most case rows of an input sheet
MaxRows == 3
\* the most tokens of a free-form list text
MaxTok == 2
\* the most entries of a serialized policy list
MaxItems == 2

(***************************************************************************)
(* Cells.                                                                  *)
(***************************************************************************)
\* A missing cell of a text column (read_excel turns an empty cell into NaN).
NaN == "NaN"
\* The NaN that explode() puts in a policy column for an empty list.
NaNPolicy == <<"NaN">>
\* The NaN that a merge puts in a count column for a key one side lacks.
NaNCount == 0 - 1

Range(s) == {s[i] : i \in 1..Len(s)}

\* Python's order of the str cells the model uses (code point order).
StrOrder == <<"DE", "NaN", "System", "Training", "US">>
StrRank(s) == CHOOSE i \in 1..Len(StrOrder) : StrOrder[i] = s
StrLess(a, b) == StrRank(a) < StrRank(b)

\* The characters of policy identifiers, in code point order.
CharOrder == <<"A", "B">>
CharRank(c) == CHOOSE i \in 1..Len(CharOrder) : CharOrder[i] = c
\* Python's str.__lt__: lexicographic by code point, a proper prefix first.
PyStrLess(s, t) ==
    \E i \in 1..(Len(t)) :
        /\ \A j \in 1..(i - 1) : j <= Len(s) /\ s[j] = t[j]
        /\ i - 1 <= Len(s)
        /\ (i > Len(s) \/ CharRank(s[i]) < CharRank(t[i]))

(***************************************************************************)
(* eval(text) on the texts of the list columns.  A text is a sequence of   *)
(* tokens: "[", "]", "," and string literals; the literal token "A" is the *)
(* source text "A" with its quotes.  Values: str, list, tuple.             *)
(***************************************************************************)
Literals == {"A", "B"}
Tokens == {"[", "]", ","} \cup Literals

PyStr(chars) == [k |-> "str", v |-> chars]
PyList(items) == [k |-> "list", v |-> items]
PyTuple(items) == [k |-> "tuple", v |-> items]

Raised == [ok |-> FALSE, val |-> PyStr(<<>>), next |-> 0]
Parsed(val, next) == [ok |-> TRUE, val |-> val, next |-> next]

\* The end of the run of adjacent string literals that starts at i
\* (adjacent literals are one str: "A" "B" is "AB").
RECURSIVE LiteralRunEnd(_, _)
LiteralRunEnd(toks, i) ==
    IF i <= Len(toks) /\ toks[i] \in Literals
    THEN LiteralRunEnd(toks, i + 1)
    ELSE i

\* A "[" right after an atom is a subscription. No token is an integer or a
\* slice, so it raises: SyntaxError if it does not parse, TypeError if it does.
Trailer(toks, j, val) ==
    IF j <= Len(toks) /\ toks[j] = "["
    THEN Raised
    ELSE Parsed(val, j)

RECURSIVE ParseTest(_, _), ParseItems(_, _, _)
\* One expression at i: a str (a run of literals) or a list display.
ParseTest(toks, i) ==
    IF i > Len(toks) THEN Raised
    ELSE IF toks[i] \in Literals
    THEN LET j == LiteralRunEnd(toks, i)
         IN Trailer(toks, j, PyStr(SubSeq(toks, i, j - 1)))
    ELSE IF toks[i] = "["
    THEN LET r == ParseItems(toks, i + 1, <<>>)
         IN IF r.ok THEN Trailer(toks, r.next, PyList(r.val)) ELSE Raised
    ELSE Raised

\* The items of a list display up to its "]" (a trailing comma is allowed).
ParseItems(toks, i, acc) ==
    IF i > Len(toks) THEN Raised
    ELSE IF toks[i] = "]" THEN Parsed(acc, i + 1)
    ELSE LET e == ParseTest(toks, i)
         IN IF ~e.ok \/ e.next > Len(toks) THEN Raised
            ELSE IF toks[e.next] = ","
            THEN ParseItems(toks, e.next + 1, Append(acc, e.val))
            ELSE IF toks[e.next] = "]"
            THEN Parsed(Append(acc, e.val), e.next + 1)
            ELSE Raised

\* The rest of a top-level expression list after its first expression:
\* a comma makes the whole a tuple.
RECURSIVE ParseMore(_, _, _)
ParseMore(toks, i, acc) ==
    IF i > Len(toks) THEN Parsed(PyTuple(acc), i)
    ELSE IF toks[i] # "," THEN Raised
    ELSE IF i = Len(toks) THEN Parsed(PyTuple(acc), i + 1)
    ELSE LET e == ParseTest(toks, i + 1)
         IN IF e.ok THEN ParseMore(toks, e.next, Append(acc, e.val)) ELSE Raised

\* eval(text): [ok |-> FALSE] when it raises.
PyEval(toks) ==
    LET e == ParseTest(toks, 1)
    IN IF ~e.ok THEN Raised
       ELSE IF e.next > Len(toks) THEN e
       ELSE ParseMore(toks, e.next, <<e.val>>)

\* set(value): the characters of a str, the items of a list or tuple;
\* TypeError (ok = FALSE) when an item is a list, which is unhashable.
PySet(val) ==
    IF val.k = "str"
    THEN [ok |-> TRUE, set |-> {<<val.v[i]>> : i \in 1..Len(val.v)}]
    ELSE IF \E i \in 1..Len(val.v) : val.v[i].k # "str"
    THEN [ok |-> FALSE, set |-> {}]
    ELSE [ok |-> TRUE, set |-> {val.v[i].v : i \in 1..Len(val.v)}]

\* list(a_set): the elements in the set's iteration order, which for str
\* elements depends on the process's hash seed.
RECURSIVE PyListOfSet(_, _)
PyListOfSet(S, seed) ==
    IF S = {} THEN <<>>
    ELSE LET first == CHOOSE x \in S : \A y \in S \ {x} :
                          IF seed = 0 THEN PyStrLess(x, y) ELSE PyStrLess(y, x)
         IN <<first>> \o PyListOfSet(S \ {first}, seed)

\* A selection that compares a case against the list of its own channel.
CorrectTextSameChannel(row) ==
    IF row.Method = "Call" THEN row.CorrectCall ELSE row.CorrectEmail

\* Which correct-policy column a row is compared against.
CorrectText(row) ==
    IF row.Method = "Call" THEN row.CorrectEmail ELSE row.CorrectCall

\* identify_mistaken_policies(row): (fp, fn), or the exception of an eval or
\* a set() that raises.
identify_mistaken_policies(row, seed) ==
    LET correct_policies == PyEval(CorrectText(row))
        sim_policies == PyEval(row.PolicyList)
    IN IF ~correct_policies.ok \/ ~sim_policies.ok
       THEN [ok |-> FALSE, fp |-> <<>>, fn |-> <<>>]
       ELSE LET correct_set == PySet(correct_policies.val)
                sim_set == PySet(sim_policies.val)
            IN IF ~correct_set.ok \/ ~sim_set.ok
               THEN [ok |-> FALSE, fp |-> <<>>, fn |-> <<>>]
               ELSE [ok |-> TRUE,
                     fp |-> PyListOfSet(sim_set.set \ correct_set.set, seed),
                     fn |-> PyListOfSet(correct_set.set \ sim_set.set, seed)]

(***************************************************************************)
(* DataFrame operations, as pandas documents them.                         *)
(***************************************************************************)
RECURSIVE Flatten(_)
Flatten(ss) == IF ss = <<>> THEN <<>> ELSE Head(ss) \o Flatten(Tail(ss))

\* An explode that keeps only the first element of each list.
ExplodeFirst(tbl, col) ==
    [i \in 1..Len(tbl) |->
        IF tbl[i][col] = <<>>
        THEN [tbl[i] EXCEPT ![col] = NaNPolicy]
        ELSE [tbl[i] EXCEPT ![col] = tbl[i][col][1]]]

\* explode(col): one row per element of the row's list, in list order; an
\* empty list gives one row with NaN.
Explode(tbl, col) ==
    Flatten([i \in 1..Len(tbl) |->
        IF tbl[i][col] = <<>>
        THEN <<[tbl[i] EXCEPT ![col] = NaNPolicy]>>
        ELSE [j \in 1..Len(tbl[i][col]) |-> [tbl[i] EXCEPT ![col] = tbl[i][col][j]]]])

\* dropna(subset=[col])
DropNa(tbl, col) == SelectSeq(tbl, LAMBDA r : r[col] # NaNPolicy)

\* The order of group keys: Market, then policy, then (if present) RCA.
KeyLess(a, b) ==
    \/ StrLess(a[1], b[1])
    \/ /\ a[1] = b[1]
       /\ Len(a) >= 2
       /\ \/ PyStrLess(a[2], b[2])
          \/ a[2] = b[2] /\ Len(a) >= 3 /\ StrLess(a[3], b[3])

RECURSIVE SortKeys(_)
SortKeys(S) ==
    IF S = {} THEN <<>>
    ELSE LET k == CHOOSE x \in S : \A y \in S \ {x} : KeyLess(x, y)
         IN <<k>> \o SortKeys(S \ {k})

\* The group keys of groupby(...): sort=True gives them ascending, and
\* dropna=True leaves out every row with a NaN in a key column.
IsNa(r, c) == IF c \in {"FP", "FN"} THEN r[c] = NaNPolicy ELSE r[c] = NaN
KeyOf(r, cols) == [k \in 1..Len(cols) |-> r[cols[k]]]
GroupKeys(tbl, cols) ==
    SortKeys({KeyOf(tbl[i], cols) :
                 i \in {j \in 1..Len(tbl) : \A k \in 1..Len(cols) : ~IsNa(tbl[j], cols[k])}})

\* groupby(['Market', col]).size().reset_index(name=out).rename({col: 'Policy'})
GroupSize(tbl, col, out) ==
    LET Key(r) == KeyOf(r, <<"Market", col>>)
        keys == GroupKeys(tbl, <<"Market", col>>)
    IN [g \in 1..Len(keys) |->
           [Market |-> keys[g][1], Policy |-> keys[g][2]]
           @@ (out :> Cardinality({i \in 1..Len(tbl) : Key(tbl[i]) = keys[g]}))]

\* groupby(['Market', col, 'RCA']).size().reset_index(name='count')
GroupSizeRca(tbl, col) ==
    LET Key(r) == KeyOf(r, <<"Market", col, "RCA">>)
        keys == GroupKeys(tbl, <<"Market", col, "RCA">>)
    IN [g \in 1..Len(keys) |->
           [Market |-> keys[g][1], Policy |-> keys[g][2], RCA |-> keys[g][3],
            count |-> Cardinality({i \in 1..Len(tbl) : Key(tbl[i]) = keys[g]})]]

\* A total that counts the cases of the whole sheet for every market.
GroupSizeWhole(tbl) ==
    LET keys == SortKeys({<<tbl[i].Market>> : i \in {j \in 1..Len(tbl) : tbl[j].Market # NaN}})
    IN [g \in 1..Len(keys) |-> [Market |-> keys[g][1], TotalCases |-> Len(tbl)]]

\* groupby('Market').size().reset_index(name='Total Cases')
GroupSizeMarket(tbl) ==
    LET Key(r) == KeyOf(r, <<"Market">>)
        keys == GroupKeys(tbl, <<"Market">>)
    IN [g \in 1..Len(keys) |->
           [Market |-> keys[g][1],
            TotalCases |-> Cardinality({i \in 1..Len(tbl) : Key(tbl[i]) = keys[g]})]]

MarketPolicy(r) == <<r.Market, r.Policy>>
OnMarket(r) == <<r.Market>>

NaNs(cols) == [c \in cols |-> NaNCount]
Columns(r, cols) == [c \in cols |-> r[c]]

\* merge(on=['Market','Policy'], how='left'): the left rows in order, each once per matching right row,
\* and with NaN in the right's columns when there is none.
MergeLeft(left, right, rcols) ==
    Flatten([i \in 1..Len(left) |->
        LET m == SelectSeq(right, LAMBDA r : MarketPolicy(r) = MarketPolicy(left[i]))
        IN IF m = <<>>
           THEN <<left[i] @@ NaNs(rcols)>>
           ELSE [j \in 1..Len(m) |-> left[i] @@ Columns(m[j], rcols)]])

\* merge(on='Market'), how='inner': as 'left', without the rows that have no match.
MergeInner(left, right, rcols) ==
    Flatten([i \in 1..Len(left) |->
        LET m == SelectSeq(right, LAMBDA r : OnMarket(r) = OnMarket(left[i]))
        IN [j \in 1..Len(m) |-> left[i] @@ Columns(m[j], rcols)]])

\* merge(how='outer') on Market and Policy: the union of the keys of both
\* sides, sorted lexicographically, NaN where a side lacks the key.
MergeOuter(left, right, lcols, rcols) ==
    LET keys == SortKeys({MarketPolicy(left[i]) : i \in 1..Len(left)}
                         \cup {MarketPolicy(right[i]) : i \in 1..Len(right)})
    IN Flatten([g \in 1..Len(keys) |->
        LET l == SelectSeq(left, LAMBDA r : MarketPolicy(r) = keys[g])
            m == SelectSeq(right, LAMBDA r : MarketPolicy(r) = keys[g])
        IN IF m = <<>> THEN [i \in 1..Len(l) |-> l[i] @@ NaNs(rcols)]
           ELSE IF l = <<>> THEN [j \in 1..Len(m) |-> m[j] @@ NaNs(lcols)]
           ELSE Flatten([i \in 1..Len(l) |->
                    [j \in 1..Len(m) |-> l[i] @@ Columns(m[j], rcols)]])])

\* The columns that hold text; every other column holds a number.
TextColumns == {"Market", "Policy", "OverallImpact", "ImpactControllable",
                "ImpactNonControllable"}

\* A merge result whose NaN are left in place.
FillNaSkipped(tbl) == tbl

\* fillna(0)
FillNa(tbl) ==
    [i \in 1..Len(tbl) |->
        [c \in DOMAIN tbl[i] |->
            IF c \notin TextColumns /\ tbl[i][c] = NaNCount THEN 0 ELSE tbl[i][c]]]

\* Float addition: NaN + x is NaN.
PlusF(a, b) == IF a = NaNCount \/ b = NaNCount THEN NaNCount ELSE a + b

(***************************************************************************)
(* The impact columns: (count / total * 100).round(2).astype(str) + '%'.   *)
(***************************************************************************)
\* num/den rounded to the nearest integer, a half to the even neighbour
\* (numpy's round).
RoundHalfEven(num, den) ==
    LET q == num \div den
        r == num % den
    IN IF 2 * r < den THEN q
       ELSE IF 2 * r > den THEN q + 1
       ELSE IF q % 2 = 0 THEN q ELSE q + 1

DigitChars == <<"0", "1", "2", "3", "4", "5", "6", "7", "8", "9">>
RECURSIVE Digits(_)
Digits(n) ==
    IF n < 10 THEN <<DigitChars[n + 1]>>
    ELSE Digits(n \div 10) \o <<DigitChars[(n % 10) + 1]>>

\* str(x) of a float x of h hundredths: the integer part, a point, and the
\* decimals without trailing zeros, of which at least one digit is kept.
FloatStr(h) ==
    LET f == h % 100
    IN Digits(h \div 100) \o <<".">> \o
       (IF f % 10 = 0 THEN <<DigitChars[(f \div 10) + 1]>>
        ELSE <<DigitChars[(f \div 10) + 1], DigitChars[(f % 10) + 1]>>)

Impact(count, total) == FloatStr(RoundHalfEven(count * 10000, total)) \o <<"%">>

(***************************************************************************)
(* process_data                                                            *)
(***************************************************************************)
VARIABLES
    pc,            \* the statement process_data is at
    df,            \* the input sheet; after the apply, with the columns FP and FN
    mistakes_df,   \* the rows of df with Is_Task_Correct == 'wrong'
    market_level,  \* the breakdown table
    totals,        \* the cases of each market
    sheets         \* what was written: one sheet per market

vars == <<pc, df, mistakes_df, market_level, totals, sheets>>

controllable == {"Yes", "Both Wrong"}
non_controllable == {"No", "Both Right"}

\* The iteration orders of a set of str that a run's hash seed can give.
HashSeeds == {0, 1}
\* What a build's quicksort can do with equal keys.
SortKinds == {"stable", "unstable"}

\* df.apply(identify_mistaken_policies, axis=1, result_type='expand')
ApplyRows(tbl, seed) ==
    [i \in 1..Len(tbl) |-> identify_mistaken_policies(tbl[i], seed)]

WithMismatch(tbl, res) ==
    [i \in 1..Len(tbl) |-> tbl[i] @@ [FP |-> res[i].fp, FN |-> res[i].fn]]

\* A filter that keeps every case.
FilterNone(tbl) == tbl

\* line 30
FilterWrong(tbl) == SelectSeq(tbl, LAMBDA r : r.IsTaskCorrect = "wrong")

ExplodeCount(tbl, col, out) == GroupSize(DropNa(Explode(tbl, col), col), col, out)

market_fp(mdf) == ExplodeCount(mdf, "FP", "FPCount")
market_fn(mdf) == ExplodeCount(mdf, "FN", "FNCount")

\* Mistakes added up before the fillna(0).
MarketLevelSumFirst(fp, fn) ==
    LET m == MergeOuter(fp, fn, {"FPCount"}, {"FNCount"})
    IN FillNa([i \in 1..Len(m) |->
                  m[i] @@ [Mistakes |-> PlusF(m[i].FPCount, m[i].FNCount)]])

\* lines 48-50: the outer merge, fillna(0), Mistakes, astype(int)
MarketLevel(fp, fn) ==
    LET m == FillNa(MergeOuter(fp, fn, {"FPCount"}, {"FNCount"}))
    IN [i \in 1..Len(m) |->
           m[i] @@ [Mistakes |-> PlusF(m[i].FPCount, m[i].FNCount)]]

group_counts(tbl, subset_vals, col_name, out_name) ==
    ExplodeCount(SelectSeq(tbl, LAMBDA r : r.Controllable \in subset_vals),
                 col_name, out_name)

\* lines 60-69: the counts of one bucket of Controllable values
BucketCounts(tbl, subset_vals, out) ==
    LET m == FillNa(MergeOuter(group_counts(tbl, subset_vals, "FP", "BucketFP"),
                               group_counts(tbl, subset_vals, "FN", "BucketFN"),
                               {"BucketFP"}, {"BucketFN"}))
    IN [i \in 1..Len(m) |->
           [Market |-> m[i].Market, Policy |-> m[i].Policy]
           @@ (out :> PlusF(m[i].BucketFP, m[i].BucketFN))]

\* A non-controllable bucket that knows 'No' only.
nonctrl_no_only(mdf) == BucketCounts(mdf, {"No"}, "NonControllableCount")

ctrl(mdf) == BucketCounts(mdf, controllable, "ControllableCount")
nonctrl(mdf) == BucketCounts(mdf, non_controllable, "NonControllableCount")

\* lines 71-75
WithControllable(tbl, c, n) ==
    FillNa(MergeLeft(MergeLeft(tbl, c, {"ControllableCount"}),
                     n, {"NonControllableCount"}))

\* lines 79-83
WithImpacts(tbl, tot) ==
    LET m == MergeInner(tbl, tot, {"TotalCases"})
    IN [i \in 1..Len(m) |->
           [c \in (DOMAIN m[i]) \ {"TotalCases"} |-> m[i][c]]
           @@ [ImpactControllable |-> Impact(m[i].ControllableCount, m[i].TotalCases),
               ImpactNonControllable |-> Impact(m[i].NonControllableCount, m[i].TotalCases),
               OverallImpact |-> Impact(m[i].Mistakes, m[i].TotalCases)]]

\* sort_values(by='Mistakes', ascending=False) with the default
\* kind='quicksort', which is not stable: rows with equal Mistakes come out
\* in the order the build's sort leaves them, here either their order in
\* the table or its reverse.
RECURSIVE SortOrder(_, _, _)
SortOrder(tbl, left, kind) ==
    IF left = {} THEN <<>>
    ELSE LET i == CHOOSE x \in left : \A y \in left \ {x} :
                     \/ tbl[x].Mistakes > tbl[y].Mistakes
                     \/ /\ tbl[x].Mistakes = tbl[y].Mistakes
                        /\ IF kind = "stable" THEN x < y ELSE x > y
         IN <<i>> \o SortOrder(tbl, left \ {i}, kind)

SortByMistakes(tbl, kind) ==
    LET order == SortOrder(tbl, 1..Len(tbl), kind)
    IN [i \in 1..Len(tbl) |-> tbl[order[i]]]

rca_fp(mdf) == GroupSizeRca(DropNa(Explode(mdf, "FP"), "FP"), "FP")
rca_fn(mdf) == GroupSizeRca(DropNa(Explode(mdf, "FN"), "FN"), "FN")
\* RCA counts of the false positives alone.
rca_fp_only(mdf) == rca_fp(mdf)
rca_all(mdf) == rca_fp(mdf) \o rca_fn(mdf)

\* lines 98-99: groupby(['Market','Policy','RCA'])['count'].sum()
\* .unstack(fill_value=0).reset_index(): one row per (Market, Policy) of
\* all, one column per RCA value of all.
RcaPivot(all) ==
    LET keys == SortKeys({MarketPolicy(all[i]) : i \in 1..Len(all)})
        labels == {all[i].RCA : i \in 1..Len(all)}
        Sum(S) == LET RECURSIVE Add(_)
                      Add(T) == IF T = {} THEN 0
                                ELSE LET i == CHOOSE x \in T : TRUE
                                     IN all[i].count + Add(T \ {i})
                  IN Add(S)
    IN [g \in 1..Len(keys) |->
           [Market |-> keys[g][1], Policy |-> keys[g][2]]
           @@ [l \in labels |->
                  Sum({i \in 1..Len(all) :
                          MarketPolicy(all[i]) = keys[g] /\ all[i].RCA = l})]]

rca_pivot(mdf) == RcaPivot(rca_all(mdf))

PivotColumns(pivot) ==
    UNION {(DOMAIN pivot[i]) \ {"Market", "Policy"} : i \in 1..Len(pivot)}

\* lines 100-105
WithRca(tbl, pivot) ==
    FillNa(MergeLeft(tbl, pivot, PivotColumns(pivot)))

\* lines 102-104: the columns that are none of the fixed ones
FixedColumns == {"Market", "Policy", "Mistakes", "FPCount", "FNCount",
                 "OverallImpact", "ImpactControllable", "ImpactNonControllable",
                 "ControllableCount", "NonControllableCount"}
rca_cols(row) == (DOMAIN row) \ FixedColumns

\* market_level['Market'].unique(): the markets in order of first appearance
RECURSIVE Unique(_, _)
Unique(tbl, seen) ==
    IF tbl = <<>> THEN <<>>
    ELSE IF Head(tbl).Market \in seen THEN Unique(Tail(tbl), seen)
    ELSE <<Head(tbl).Market>> \o Unique(Tail(tbl), seen \cup {Head(tbl).Market})

\* lines 110-112
MarketSheets(tbl) ==
    LET ms == Unique(tbl, {})
    IN [k \in 1..Len(ms) |->
           [name |-> ms[k],
            rows |-> SelectSeq(tbl, LAMBDA r : r.Market = ms[k])]]

\* The table process_data hands to the writer for an input sheet, a hash
\* seed and a sort; <<"raised">> when the apply raises.
process_data(input, seed, kind) ==
    LET res == ApplyRows(input, seed)
    IN IF \E i \in 1..Len(input) : ~res[i].ok THEN <<"raised">>
       ELSE LET d == WithMismatch(input, res)
                mdf == FilterWrong(d)
                counted == MarketLevel(market_fp(mdf), market_fn(mdf))
                split == WithControllable(counted, ctrl(mdf), nonctrl(mdf))
                impacts == WithImpacts(split, GroupSizeMarket(d))
                sorted == SortByMistakes(impacts, kind)
            IN WithRca(sorted, rca_pivot(mdf))

(***************************************************************************)
(* The input sheets.                                                       *)
(***************************************************************************)
\* The text of a list of policies, as the sheet's author writes it.
RECURSIVE Serialize(_)
Serialize(l) ==
    IF l = <<>> THEN <<"[", "]">>
    ELSE IF Len(l) = 1 THEN <<"[", l[1], "]">>
    ELSE <<"[", l[1], ",">> \o Tail(Serialize(Tail(l)))

RECURSIVE SeqsUpTo(_, _)
SeqsUpTo(S, n) ==
    IF n = 0 THEN {<<>>}
    ELSE LET shorter == SeqsUpTo(S, n - 1)
         IN shorter \cup {Append(s, x) : s \in {t \in shorter : Len(t) = n - 1}, x \in S}

ListTexts == {Serialize(l) : l \in SeqsUpTo(Literals, MaxItems)}
FreeTexts == SeqsUpTo(Tokens, MaxTok)

TEmpty == <<"[", "]">>
TA == <<"[", "A", "]">>
TB == <<"[", "B", "]">>
TAB == <<"[", "A", ",", "B", "]">>
\* a list that lost its closing bracket, and one written without brackets
TBroken == <<"[", "B">>
TBare == <<"A", ",", "B">>

\* Cases that differ in market, channel, applied policies and correctness.
CasesA ==
    [Market : {"DE", "US"}, Method : {"Call", "Email"},
     PolicyList : {TEmpty, TA}, CorrectEmail : {TAB}, CorrectCall : {TB},
     IsTaskCorrect : {"wrong", "correct"}, Controllable : {"Yes"},
     RCA : {"Training"}]

\* Mistaken cases that differ in the Controllable label.
CasesB ==
    [Market : {"US"}, Method : {"Email"},
     PolicyList : {TA, TAB}, CorrectEmail : {TAB}, CorrectCall : {TB},
     IsTaskCorrect : {"wrong"},
     Controllable : {"Yes", "Both Wrong", "No", "Both Right", "Maybe", NaN},
     RCA : {"Training"}]

\* Mistaken cases that differ in the RCA label, some without a market.
CasesC ==
    [Market : {"US", NaN}, Method : {"Email"},
     PolicyList : {TA, TAB}, CorrectEmail : {TAB}, CorrectCall : {TB},
     IsTaskCorrect : {"wrong"}, Controllable : {"Yes"},
     RCA : {"Training", "System", NaN}]

\* Cases whose list texts are not all lists.
CasesD ==
    [Market : {"US"}, Method : {"Call", "Email"},
     PolicyList : {TA, TBare}, CorrectEmail : {TAB}, CorrectCall : {TB, TBroken},
     IsTaskCorrect : {"wrong", "correct"}, Controllable : {"Yes"},
     RCA : {"Training"}]

RECURSIVE SetToSeq(_)
SetToSeq(S) ==
    IF S = {} THEN <<>>
    ELSE LET x == CHOOSE y \in S : TRUE IN <<x>> \o SetToSeq(S \ {x})

\* The nondecreasing sequences of n indices in 1..d.
RECURSIVE Ascending(_, _)
Ascending(d, n) ==
    IF n = 0 THEN {<<>>}
    ELSE UNION {{Append(s, x) : x \in (IF s = <<>> THEN 1 ELSE s[Len(s)])..d} :
                   s \in Ascending(d, n - 1)}

\* The sheets of 1 to MaxRows cases of S, one sheet for each multiset of
\* cases (SpecOrder draws the sheets in every row order).
Sheets(S) ==
    LET list == SetToSeq(S)
    IN {[i \in 1..Len(ix) |-> list[ix[i]]] :
           ix \in UNION {Ascending(Len(list), n) : n \in 1..MaxRows}}

Start(inputs) ==
    /\ pc = "apply"
    /\ df \in inputs
    /\ mistakes_df = <<>>
    /\ market_level = <<>>
    /\ totals = <<>>
    /\ sheets = <<>>

Init == Start(Sheets(CasesA) \cup Sheets(CasesB) \cup Sheets(CasesC) \cup Sheets(CasesD))

\* line 29, when some row's eval or set() raises: the exception leaves
\* process_data, and the run ends with nothing computed and nothing written.
ApplyRaises ==
    /\ pc = "apply"
    /\ \E seed \in HashSeeds :
           \E i \in 1..Len(df) : ~ApplyRows(df, seed)[i].ok
    /\ pc' = "raised"
    /\ UNCHANGED <<df, mistakes_df, market_level, totals, sheets>>

\* line 29
Apply ==
    /\ pc = "apply"
    /\ \E seed \in HashSeeds :
        LET res == ApplyRows(df, seed)
        IN /\ \A i \in 1..Len(df) : res[i].ok
           /\ df' = WithMismatch(df, res)
    /\ pc' = "filter"
    /\ UNCHANGED <<mistakes_df, market_level, totals, sheets>>

\* line 30
Filter ==
    /\ pc = "filter"
    /\ mistakes_df' = FilterWrong(df)
    /\ pc' = "count"
    /\ UNCHANGED <<df, market_level, totals, sheets>>

\* lines 36-50
Count ==
    /\ pc = "count"
    /\ market_level' = MarketLevel(market_fp(mistakes_df), market_fn(mistakes_df))
    /\ pc' = "split"
    /\ UNCHANGED <<df, mistakes_df, totals, sheets>>

\* lines 52-75
Split ==
    /\ pc = "split"
    /\ market_level' = WithControllable(market_level, ctrl(mistakes_df), nonctrl(mistakes_df))
    /\ pc' = "impact"
    /\ UNCHANGED <<df, mistakes_df, totals, sheets>>

\* lines 77-83
Impacts ==
    /\ pc = "impact"
    /\ totals' = GroupSizeMarket(df)
    /\ market_level' = WithImpacts(market_level, totals')
    /\ pc' = "sort"
    /\ UNCHANGED <<df, mistakes_df, sheets>>

\* lines 85-88
Sort ==
    /\ pc = "sort"
    /\ \E kind \in SortKinds : market_level' = SortByMistakes(market_level, kind)
    /\ pc' = "rca"
    /\ UNCHANGED <<df, mistakes_df, totals, sheets>>

\* lines 90-105
Rca ==
    /\ pc = "rca"
    /\ market_level' = WithRca(market_level, rca_pivot(mistakes_df))
    /\ pc' = "write"
    /\ UNCHANGED <<df, mistakes_df, totals, sheets>>

\* lines 109-117
Write ==
    /\ pc = "write"
    /\ sheets' = MarketSheets(market_level)
    /\ pc' = "done"
    /\ UNCHANGED <<df, mistakes_df, market_level, totals>>

\* lines 113-115: the writer raises, and the run exits with status 1
WriteFails ==
    /\ pc = "write"
    /\ pc' = "exit"
    /\ UNCHANGED <<df, mistakes_df, market_level, totals, sheets>>

Next ==
    \/ ApplyRaises
    \/ Apply
    \/ Filter
    \/ Count
    \/ Split
    \/ Impacts
    \/ Sort
    \/ Rca
    \/ Write
    \/ WriteFails

Spec == Init /\ [][Next]_vars

\* Sheets in every row order, for what must not depend on the row order.
CasesO ==
    [Market : {"DE", "US"}, Method : {"Call"},
     PolicyList : {TEmpty}, CorrectEmail : {TAB}, CorrectCall : {TB},
     IsTaskCorrect : {"wrong"}, Controllable : {"Yes"}, RCA : {"Training"}]
    \cup
    [Market : {"US"}, Method : {"Email"},
     PolicyList : {TA}, CorrectEmail : {TAB}, CorrectCall : {TB},
     IsTaskCorrect : {"wrong", "correct"}, Controllable : {"No"}, RCA : {"System"}]
    \cup
    [Market : {"DE"}, Method : {"Email"},
     PolicyList : {TA}, CorrectEmail : {TAB}, CorrectCall : {TBroken},
     IsTaskCorrect : {"wrong"}, Controllable : {"Yes"}, RCA : {"Training"}]

InitOrder == Start(SeqsUpTo(CasesO, MaxRows) \ {<<>>})
SpecOrder == InitOrder /\ [][Next]_vars

\* Sheets of one case, one of whose list texts is any text.
Methods == {"Call", "Email", "Chat"}
Texts == ListTexts \cup FreeTexts
ShortLists == {TEmpty, TA, TAB}
OneCase(applied, email, call) ==
    [Market : {"US"}, Method : Methods,
     PolicyList : applied, CorrectEmail : email, CorrectCall : call,
     IsTaskCorrect : {"wrong"}, Controllable : {"Yes"}, RCA : {"Training"}]
CasesE ==
    OneCase(Texts, ShortLists, ShortLists)
    \cup OneCase(ShortLists, Texts, ShortLists)
    \cup OneCase(ShortLists, ShortLists, Texts)

InitExtract == Start({<<c>> : c \in CasesE})
SpecExtract == InitExtract /\ [][Next]_vars

(***************************************************************************)
(* What the claims speak of.                                               *)
(***************************************************************************)
Applied == {"filter", "count", "split", "impact", "sort", "rca", "write", "done", "exit"}
Counted == Applied \ {"filter", "count"}
Split2 == Counted \ {"split"}
Impacted == Split2 \ {"impact"}
Sorted == Impacted \ {"sort"}
Final == Sorted \ {"rca"}

\* A list literal of string literals: "[", the entries with a comma
\* between each two, "]".
StrictList(t) ==
    /\ Len(t) >= 2
    /\ t[1] = "[" /\ t[Len(t)] = "]"
    /\ Len(t) = 2 \/ Len(t) % 2 = 1
    /\ \A j \in 2..(Len(t) - 1) :
           IF j % 2 = 0 THEN t[j] \in Literals ELSE t[j] = ","
\* The entries such a literal names.
Entries(t) == {<<t[j]>> : j \in {k \in 1..Len(t) : t[k] \in Literals}}

\* A text in brackets, however lenient one is about what stands between them.
Bracketed(t) == Len(t) >= 2 /\ t[1] = "[" /\ t[Len(t)] = "]"

NoDuplicates(l) == Cardinality(Range(l)) = Len(l)

\* The mistaken cases that count for a row of the breakdown table.
Mistaken == {i \in 1..Len(df) : df[i].IsTaskCorrect = "wrong"}
FPCases(r) ==
    {i \in Mistaken : df[i].Market = r.Market /\ r.Policy \in Range(df[i].FP)}
FNCases(r) ==
    {i \in Mistaken : df[i].Market = r.Market /\ r.Policy \in Range(df[i].FN)}
Contributing(r) == FPCases(r) \cup FNCases(r)

Rows == {market_level[i] : i \in 1..Len(market_level)}

RECURSIVE SumOf(_, _)
SumOf(f, S) ==
    IF S = {} THEN 0
    ELSE LET c == CHOOSE x \in S : TRUE IN f[c] + SumOf(f, S \ {c})

\* The pairs (market, policy) that some mistaken case with a market has in
\* its false positives or false negatives.
Pairs ==
    UNION {{<<df[i].Market, p>> : p \in Range(df[i].FP) \cup Range(df[i].FN)} :
              i \in {j \in Mistaken : df[j].Market # NaN}}
\* The RCA labels of those cases.
Labels ==
    {df[i].RCA : i \in {j \in Mistaken :
        df[j].Market # NaN /\ df[j].RCA # NaN /\ df[j].FP \o df[j].FN # <<>>}}

KnownLabels == {"Yes", "Both Wrong", "No", "Both Right"}

\* The hundredths of a percent that an impact text such as "33.33%" says.
DigitValue(c) == (CHOOSE d \in 1..10 : DigitChars[d] = c) - 1
RECURSIVE Number(_)
Number(ds) ==
    IF ds = <<>> THEN 0
    ELSE 10 * Number(SubSeq(ds, 1, Len(ds) - 1)) + DigitValue(ds[Len(ds)])
Hundredths(s) ==
    LET dot == CHOOSE i \in 1..Len(s) : s[i] = "."
        decimals == SubSeq(s, dot + 1, Len(s) - 1)
    IN 100 * Number(SubSeq(s, 1, dot - 1))
       + (IF Len(decimals) = 1 THEN 10 * Number(decimals) ELSE Number(decimals))
Abs(x) == IF x < 0 THEN 0 - x ELSE x

CasesOf(m) == {i \in 1..Len(df) : df[i].Market = m}

\* The input sheet: df without the columns the apply added.
Input ==
    [i \in 1..Len(df) |-> [c \in (DOMAIN df[i]) \ {"FP", "FN"} |-> df[i][c]]]
RowOrders(n) ==
    {f \in [1..n -> 1..n] : \A i, j \in 1..n : f[i] = f[j] => i = j}
Permuted(tbl, f) == [i \in 1..Len(tbl) |-> tbl[f[i]]]

(***************************************************************************)
(* C1: for every case row whose applied text and selected correct text are *)
(* list literals, identify_mistaken_policies returns fp = applied - C and  *)
(* fn = C - applied without duplicates, C being the Correct Email list     *)
(* when Method is 'Call' and the Correct Call list for any other Method;   *)
(* so fp and C, and fn and applied, share no policy, repeated entries or   *)
(* not.                                                                    *)
(***************************************************************************)
C1_MismatchIsSetDifference ==
    \A i \in 1..Len(df) :
        LET r == df[i]
            C == IF r.Method = "Call" THEN r.CorrectEmail ELSE r.CorrectCall
        IN StrictList(r.PolicyList) /\ StrictList(C) =>
              /\ pc # "raised"
              /\ pc \in Applied =>
                    /\ NoDuplicates(r.FP) /\ NoDuplicates(r.FN)
                    /\ Range(r.FP) = Entries(r.PolicyList) \ Entries(C)
                    /\ Range(r.FN) = Entries(C) \ Entries(r.PolicyList)
                    /\ Range(r.FP) \cap Entries(C) = {}
                    /\ Range(r.FN) \cap Entries(r.PolicyList) = {}

\* A Chat case whose applied list repeats a policy that is a false positive.
C1_Witness ==
    /\ pc = "done"
    /\ \E i \in 1..Len(df) :
        /\ df[i].Method = "Chat"
        /\ df[i].PolicyList = <<"[", "B", ",", "B", "]">>
        /\ df[i].CorrectCall = TA /\ df[i].CorrectEmail = TAB
        /\ df[i].FP = <<<<"B">>>> /\ df[i].FN = <<<<"A">>>>

(***************************************************************************)
(* C2: in every row of the breakdown table, FP Count is the number of      *)
(* cases of the row's market with Is_Task_Correct 'wrong' whose false      *)
(* positives hold the row's policy, and FN Count the number of those whose *)
(* false negatives hold it; a case with another flag counts for neither.   *)
(***************************************************************************)
C2_CountsAreMistakenCases ==
    pc \in Counted =>
        \A r \in Rows :
            /\ r.FPCount = Cardinality(FPCases(r))
            /\ r.FNCount = Cardinality(FNCases(r))

\* Two mistaken cases and a correct one with the same false positive.
C2_Witness ==
    /\ pc = "done"
    /\ \E r \in Rows :
        /\ r.FPCount = 2
        /\ \E i \in 1..Len(df) :
            /\ df[i].IsTaskCorrect = "correct"
            /\ df[i].Market = r.Market
            /\ r.Policy \in Range(df[i].FP)

(***************************************************************************)
(* C3: in every row, Controllable Count + Non-Controllable Count is at     *)
(* most Mistakes, and equal to it exactly when every mistaken case that    *)
(* counts for the row has a Controllable value among 'Yes', 'Both Wrong',  *)
(* 'No', 'Both Right'; a case with another value, or none, is in Mistakes  *)
(* and in neither count.                                                   *)
(***************************************************************************)
C3_ControllableSplit ==
    pc \in Split2 =>
        \A r \in Rows :
            LET known == {i \in Contributing(r) : df[i].Controllable \in KnownLabels}
            IN /\ r.ControllableCount + r.NonControllableCount <= r.Mistakes
               /\ r.ControllableCount + r.NonControllableCount = r.Mistakes
                     <=> known = Contributing(r)
               /\ r.Mistakes = Cardinality(Contributing(r))
               /\ r.ControllableCount + r.NonControllableCount = Cardinality(known)

\* A row with a 'Both Right' case, a case without a Controllable value and a
\* case with a value that is not in the enumeration.
C3_Witness ==
    /\ pc = "done"
    /\ \E r \in Rows :
        /\ r.Mistakes = 3
        /\ r.ControllableCount = 0 /\ r.NonControllableCount = 1
        /\ {df[i].Controllable : i \in Contributing(r)} = {"Both Right", "Maybe", NaN}

C5_OneRowPerPair ==
    pc \in Counted =>
        /\ {MarketPolicy(r) : r \in Rows} = Pairs
        /\ Len(market_level) = Cardinality(Pairs)
        /\ \A r \in Rows :
            /\ \A c \in (DOMAIN r) \ TextColumns : r[c] \in Nat
            /\ {"FPCount", "FNCount", "Mistakes"} \subseteq DOMAIN r
            /\ pc \in Split2 =>
                  {"ControllableCount", "NonControllableCount"} \subseteq DOMAIN r
            /\ pc \in Final => DOMAIN r = FixedColumns \cup Labels

\* Two rows with a 0 in FN Count, Non-Controllable Count, FP Count or an RCA
\* column, beside a mistaken case that has no market.
C5_Witness ==
    /\ pc = "done"
    /\ Len(market_level) = 2
    /\ \A r \in Rows : rca_cols(r) = {"System", "Training"}
    /\ \E r \in Rows : r.FNCount = 0 /\ r.NonControllableCount = 0
    /\ \E r \in Rows : r.FPCount = 0 /\ r["System"] = 1 /\ r["Training"] = 0
    /\ \E i \in Mistaken : df[i].Market = NaN /\ df[i].FP # <<>>

(***************************************************************************)
(* C6: Mistakes = FP Count + FN Count in every row of the table, in        *)
(* integers, also where the pair is only ever a false positive or only     *)
(* ever a false negative.                                                  *)
(***************************************************************************)
C6_MistakesIsSum ==
    pc \in Counted =>
        \A r \in Rows :
            /\ r.FPCount \in Nat /\ r.FNCount \in Nat
            /\ r.Mistakes = r.FPCount + r.FNCount
            /\ r.Mistakes >= 1

\* A row that is only a false positive, one that is only a false negative,
\* and one that is both.
C6_Witness ==
    /\ pc = "done"
    /\ \E r \in Rows : r.FPCount = 1 /\ r.FNCount = 0
    /\ \E r \in Rows : r.FPCount = 0 /\ r.FNCount = 1
    /\ \E r \in Rows : r.FPCount = 1 /\ r.FNCount = 1

(***************************************************************************)
(* C7: in every row, Overall Impact is Mistakes divided by the Total Cases *)
(* of the row's own market, as a percentage rounded to 2 decimals; Total   *)
(* Cases counts every case of that market, mistaken or not, and is at      *)
(* least 1.                                                                *)
(***************************************************************************)
C7_OverallImpact ==
    pc \in Impacted =>
        \A r \in Rows :
            LET total == Cardinality(CasesOf(r.Market))
                text == r.OverallImpact
            IN /\ total >= 1
               /\ \E k \in 1..Len(totals) :
                      /\ totals[k] = [Market |-> r.Market, TotalCases |-> total]
                      /\ \A j \in 1..Len(totals) :
                             totals[j].Market = r.Market => j = k
               /\ text[Len(text)] = "%"
               /\ 2 * Abs(Hundredths(text) * total - 10000 * r.Mistakes) <= total

\* A row with 1 mistake in a market of 2 cases, on a sheet of 3 cases.
C7_Witness ==
    /\ pc = "done"
    /\ Len(df) = 3
    /\ \E r \in Rows :
        /\ Cardinality(CasesOf(r.Market)) = 2
        /\ Cardinality(CasesOf(r.Market) \cap Mistaken) = 1
        /\ r.Mistakes = 1
        /\ r.OverallImpact = <<"5", "0", ".", "0", "%">>

(***************************************************************************)
(* C8 as claimed: when the applied-policy text or the selected             *)
(* correct-policy text of some case is not a list literal, the run ends at *)
(* the apply with an error: no mismatch set for the row, no table, no      *)
(* output.                                                                 *)
(***************************************************************************)
C8_MalformedTextAborts ==
    (\E i \in 1..Len(df) :
        ~Bracketed(df[i].PolicyList) \/ ~Bracketed(CorrectText(df[i])))
    => /\ pc \in {"apply", "raised"}
       /\ market_level = <<>>
       /\ sheets = <<>>

(***************************************************************************)
(* C9 as claimed: the table handed to the writer is in descending order of *)
(* Mistakes, and rows with equal Mistakes are in the order of the grouping *)
(* step, ascending by (market, policy).                                    *)
(***************************************************************************)
C9_SortedStable ==
    pc \in Final =>
        \A i, j \in 1..Len(market_level) :
            i < j =>
                \/ market_level[i].Mistakes > market_level[j].Mistakes
                \/ /\ market_level[i].Mistakes = market_level[j].Mistakes
                   /\ KeyLess(MarketPolicy(market_level[i]), MarketPolicy(market_level[j]))

(***************************************************************************)
(* C10: the table is a function of the multiset of the input cases: every  *)
(* order of the input rows, and every further run on the same input, gives *)
(* the same table, row for row and column for column.                      *)
(***************************************************************************)
C10_OrderIndependent ==
    pc = "write" =>
        \A kind \in SortKinds :
            (\E seed \in HashSeeds : process_data(Input, seed, kind) = market_level)
            => \A f \in RowOrders(Len(df)) :
                   \A seed \in HashSeeds :
                       process_data(Permuted(Input, f), seed, kind) = market_level

\* A sheet whose rows are not grouped by market, with a two-element mismatch
\* set and rows of equal Mistakes.
C10_Witness ==
    /\ pc = "write"
    /\ Len(df) = 3
    /\ df[1].Market = "US" /\ df[2].Market = "DE" /\ df[3].Market = "US"
    /\ \E i \in 1..Len(df) : Len(df[i].FN) = 2
    /\ Len(market_level) = 4
    /\ \E i, j \in 1..Len(market_level) :
           i # j /\ market_level[i].Mistakes = market_level[j].Mistakes
    /\ \E i, j \in 1..Len(market_level) :
           market_level[i].Mistakes # market_level[j].Mistakes
====
